---- MODULE Spec2Model ----
(***************************************************************************)
(* Model of the housing price estimation service:                          *)
(*   app/services/claude_service.py  (ClaudeService: retrying upstream     *)
(*                                    call, JSON decoding, error wrapping) *)
(*   app/models/housing.py           (the pydantic response schema)        *)
(*   app/api/housing.py              (the request handler)                 *)
(* plus the JSON extractor (_extract_json_from_response), whose tests are  *)
(* in tests/services/test_claude_service.py but whose body is not part of  *)
(* the service source; it is modelled from its written description.        *)
(*                                                                         *)
(* A text is a sequence of tokens.  The structural characters are tokens   *)
(* of their own; the members of a JSON object are abstracted into one      *)
(* token that names a dictionary (DictOf).                                 *)
(***************************************************************************)
EXTENDS Integers, Sequences, FiniteSets, TLC

(***************************************************************************)
(* Bounds of the model.                                                    *)
(***************************************************************************)
\* largest max_retries argument tried on a direct _call_claude_with_retry
MaxRetriesArg == 3
\* longest text given to the extractor
MaxLen == 6

(***************************************************************************)
(* Tokens.                                                                 *)
(***************************************************************************)
LBRACE == "{"
RBRACE == "}"
QUOTE  == "q"     \* the double quote
BSLASH == "b"     \* the backslash
WS     == " "     \* a blank
FENCE  == "f"     \* the code fence marker (three backticks)
PROSE  == "a"     \* a letter
DIGIT  == "4"     \* a digit

ScanChars == {LBRACE, RBRACE, QUOTE, BSLASH, WS, FENCE, PROSE}

\* tokens that stand for the member list of a JSON object
DictToks == {"d_valid", "d_spec", "d_no_caveats", "d_partial",
             "d_empty_sources", "d_bad_confidence", "d_negative_price",
             "d_unordered_price", "d_no_median", "d_price_str", "d_city_int",
             "d_no_summary"}

(***************************************************************************)
(* JSON values.  Every value is a record of one shape; the tag t says      *)
(* which of the fields carries the value.                                  *)
(***************************************************************************)
PriceKeys == {"min", "max", "median"}

NoNum  == [t |-> "absent", n |-> 0]
Num(k) == [t |-> "int", n |-> k]
NumStr == [t |-> "str", n |-> 0]       \* a non-numeric string where a number belongs
NoObj  == [k \in PriceKeys |-> NoNum]

JAbsent  == [t |-> "absent", s |-> "", n |-> 0, l |-> <<>>, o |-> NoObj]
JStr(x)  == [t |-> "str",    s |-> x,  n |-> 0, l |-> <<>>, o |-> NoObj]
JInt(k)  == [t |-> "int",    s |-> "", n |-> k, l |-> <<>>, o |-> NoObj]
JList(q) == [t |-> "list",   s |-> "", n |-> 0, l |-> q,    o |-> NoObj]
JObj(f)  == [t |-> "obj",    s |-> "", n |-> 0, l |-> <<>>, o |-> f]

Prices(lo, hi, mid) ==
    [k \in PriceKeys |-> IF k = "min" THEN Num(lo) ELSE IF k = "max" THEN Num(hi) ELSE Num(mid)]

FieldNames == {"neighborhood", "city", "state", "price_range",
               "confidence_level", "data_sources", "summary", "caveats"}

\* a JSON object: every field name is mapped, a missing key to JAbsent
EmptyDict == [k \in FieldNames |-> JAbsent]
With(d, key, v) == [d EXCEPT ![key] = v]
Without(d, key) == [d EXCEPT ![key] = JAbsent]

\* sample_housing_response_dict of the test fixtures
SampleDict ==
    [k \in FieldNames |->
        CASE k = "neighborhood"     -> JStr("Downtown")
          [] k = "city"             -> JStr("Austin")
          [] k = "state"            -> JStr("TX")
          [] k = "price_range"      -> JObj(Prices(350000, 850000, 550000))
          [] k = "confidence_level" -> JStr("medium")
          [] k = "data_sources"     -> JList(<<"market trends", "economic indicators">>)
          [] k = "summary"          -> JStr("mix of condos")
          [] k = "caveats"          -> JList(<<"estimate only", "prices vary">>)]

DictOf(tok) ==
    CASE tok = "d_valid"           -> SampleDict
      [] tok = "d_spec"            -> With(With(SampleDict, "data_sources", JList(<<"regional trends">>)),
                                           "caveats", JList(<<>>))
      [] tok = "d_no_caveats"      -> Without(SampleDict, "caveats")
      [] tok = "d_partial"         -> With(With(EmptyDict, "neighborhood", JStr("Downtown")),
                                           "city", JStr("Austin"))
      [] tok = "d_empty_sources"   -> With(SampleDict, "data_sources", JList(<<>>))
      [] tok = "d_bad_confidence"  -> With(SampleDict, "confidence_level", JStr("certain"))
      [] tok = "d_negative_price"  -> With(SampleDict, "price_range", JObj(Prices(-5, 850000, 550000)))
      [] tok = "d_unordered_price" -> With(SampleDict, "price_range", JObj(Prices(900000, 100000, 550000)))
      [] tok = "d_no_median"       -> With(SampleDict, "price_range",
                                           JObj([Prices(100000, 500000, 0) EXCEPT !["median"] = NoNum]))
      [] tok = "d_price_str"       -> With(SampleDict, "price_range",
                                           JObj([Prices(0, 500000, 300000) EXCEPT !["min"] = NumStr]))
      [] tok = "d_city_int"        -> With(SampleDict, "city", JInt(42))
      [] tok = "d_no_summary"      -> Without(SampleDict, "summary")

\* the values a test or a model response puts under a key: the value of
\* the fixture, no value, a value of another type, and the values the schema
\* is written about
Variants(k) ==
    CASE k \in {"neighborhood", "city", "state", "summary"} ->
            {SampleDict[k], JAbsent, JInt(42)}
      [] k = "price_range" ->
            {SampleDict[k], JAbsent, JStr("cheap"),
             JObj(Prices(0, 0, 0)),
             JObj(Prices(-5, 850000, 550000)),
             JObj(Prices(350000, 850000, -1)),
             JObj(Prices(900000, 100000, 550000)),
             JObj([Prices(100000, 500000, 0) EXCEPT !["median"] = NoNum]),
             JObj([Prices(0, 500000, 300000) EXCEPT !["min"] = NoNum]),
             JObj([Prices(100000, 0, 300000) EXCEPT !["max"] = NoNum]),
             JObj([Prices(0, 500000, 300000) EXCEPT !["min"] = NumStr])}
      [] k = "confidence_level" ->
            {JStr("low"), JStr("medium"), JStr("high"), JStr("certain"), JStr(""),
             JAbsent, JInt(42)}
      [] k = "data_sources" ->
            {SampleDict[k], JList(<<"regional trends">>), JList(<<>>), JAbsent, JStr("trends")}
      [] k = "caveats" ->
            {SampleDict[k], JList(<<>>), JAbsent, JStr("none")}

Docs ==
    {[k \in FieldNames |->
        CASE k = "neighborhood"     -> v[1]
          [] k = "city"             -> v[2]
          [] k = "state"            -> v[3]
          [] k = "summary"          -> v[4]
          [] k = "price_range"      -> v[5]
          [] k = "confidence_level" -> v[6]
          [] k = "data_sources"     -> v[7]
          [] k = "caveats"          -> v[8]] :
     v \in Variants("neighborhood") \X Variants("city") \X Variants("state")
           \X Variants("summary") \X Variants("price_range")
           \X Variants("confidence_level") \X Variants("data_sources")
           \X Variants("caveats")}

(***************************************************************************)
(* The response schema (app/models/housing.py).                            *)
(***************************************************************************)
ConfidenceLevel == {"low", "medium", "high"}

NoResponse ==
    [neighborhood |-> "", city |-> "", state |-> "",
     price_range |-> [min |-> 0, max |-> 0, median |-> 0],
     confidence_level |-> "", data_sources |-> <<>>, summary |-> "", caveats |-> <<>>]

\* PriceRange: three required int fields, no further constraint
PriceRangeOk(v) == v.t = "obj" /\ \A k \in PriceKeys : v.o[k].t = "int"

\* FieldErrors with data_sources declared without min_length
FieldErrorsNoMinLength(d) ==
    {k \in {"neighborhood", "city", "state", "summary"} : d[k].t # "str"}
    \cup (IF PriceRangeOk(d["price_range"]) THEN {} ELSE {"price_range"})
    \cup (IF d["confidence_level"].t = "str" /\ d["confidence_level"].s \in ConfidenceLevel
          THEN {} ELSE {"confidence_level"})
    \cup (IF d["data_sources"].t = "list" THEN {} ELSE {"data_sources"})
    \cup (IF d["caveats"].t \in {"absent", "list"} THEN {} ELSE {"caveats"})

\* the fields of d that pydantic reports an error for
FieldErrors(d) ==
    {k \in {"neighborhood", "city", "state", "summary"} : d[k].t # "str"}
    \cup (IF PriceRangeOk(d["price_range"]) THEN {} ELSE {"price_range"})
    \cup (IF d["confidence_level"].t = "str" /\ d["confidence_level"].s \in ConfidenceLevel
          THEN {} ELSE {"confidence_level"})
    \cup (IF d["data_sources"].t = "list" /\ Len(d["data_sources"].l) >= 1
          THEN {} ELSE {"data_sources"})
    \cup (IF d["caveats"].t \in {"absent", "list"} THEN {} ELSE {"caveats"})

\* HousingPricingResponse(**d): the model object, or a ValidationError
HousingPricingResponse(d) ==
    IF FieldErrors(d) # {}
    THEN [ok |-> FALSE, value |-> NoResponse]
    ELSE [ok |-> TRUE,
          value |-> [neighborhood |-> d["neighborhood"].s,
                     city |-> d["city"].s,
                     state |-> d["state"].s,
                     price_range |-> [min |-> d["price_range"].o["min"].n,
                                      max |-> d["price_range"].o["max"].n,
                                      median |-> d["price_range"].o["median"].n],
                     confidence_level |-> d["confidence_level"].s,
                     data_sources |-> d["data_sources"].l,
                     summary |-> d["summary"].s,
                     caveats |-> IF d["caveats"].t = "absent" THEN <<>> ELSE d["caveats"].l]]
(***************************************************************************)
(* Texts and json.loads.                                                   *)
(***************************************************************************)
RECURSIVE LStrip(_)
LStrip(t) == IF t # <<>> /\ Head(t) = WS THEN LStrip(Tail(t)) ELSE t

RECURSIVE RStrip(_)
RStrip(t) == IF t # <<>> /\ t[Len(t)] = WS THEN RStrip(SubSeq(t, 1, Len(t) - 1)) ELSE t

Trim(t) == RStrip(LStrip(t))

IsNotWs(c) == c # WS

\* the characters of the body of a string literal from position i on: no bare
\* quote, a backslash only before a quote or a backslash
RECURSIVE IsStringBody(_, _)
IsStringBody(t, i) ==
    IF i > Len(t) THEN TRUE
    ELSE IF t[i] = QUOTE THEN FALSE
    ELSE IF t[i] = BSLASH
         THEN i + 1 <= Len(t) /\ t[i + 1] \in {QUOTE, BSLASH} /\ IsStringBody(t, i + 2)
         ELSE IsStringBody(t, i + 1)

IsObjectText(u) ==
    /\ Len(u) >= 2
    /\ u[1] = LBRACE
    /\ u[Len(u)] = RBRACE
    /\ LET inner == SelectSeq(SubSeq(u, 2, Len(u) - 1), IsNotWs)
       IN  inner = <<>> \/ (Len(inner) = 1 /\ inner[1] \in DictToks)

IsStringText(u) ==
    /\ Len(u) >= 2
    /\ u[1] = QUOTE
    /\ u[Len(u)] = QUOTE
    /\ IsStringBody(SubSeq(u, 2, Len(u) - 1), 1)

IsNumberText(u) == Len(u) >= 1 /\ \A i \in 1..Len(u) : u[i] = DIGIT

\* json.loads(content): the decoded value, or ok = FALSE for JSONDecodeError.
\* Whitespace around the one value is skipped; anything else before or after
\* it is an error.
JsonLoads(content) ==
    LET u == Trim(content) IN
    IF IsObjectText(u)
    THEN LET inner == SelectSeq(SubSeq(u, 2, Len(u) - 1), IsNotWs)
         IN  [ok |-> TRUE, t |-> "dict",
              d |-> IF inner = <<>> THEN EmptyDict ELSE DictOf(inner[1])]
    ELSE IF IsStringText(u) THEN [ok |-> TRUE, t |-> "str", d |-> EmptyDict]
    ELSE IF IsNumberText(u) THEN [ok |-> TRUE, t |-> "int", d |-> EmptyDict]
    ELSE [ok |-> FALSE, t |-> "none", d |-> EmptyDict]

NoJson == [ok |-> FALSE, t |-> "none", d |-> EmptyDict]

(***************************************************************************)
(* What the model may answer: the bare value, or the value in whitespace,  *)
(* in a fence with or without a language tag, or in prose.                 *)
(***************************************************************************)
Wrappers == {"bare", "blank", "fence_json", "fence_plain", "prose"}

Wrap(w, core) ==
    CASE w = "bare"        -> core
      [] w = "blank"       -> <<WS>> \o core \o <<WS>>
      [] w = "fence_json"  -> <<FENCE, PROSE, WS>> \o core \o <<WS, FENCE>>
      [] w = "fence_plain" -> <<FENCE, WS>> \o core \o <<WS, FENCE>>
      [] w = "prose"       -> <<PROSE, WS>> \o core \o <<WS, PROSE>>

ObjectText(tok) == <<LBRACE, tok, RBRACE>>

Cores ==
    {ObjectText(tok) : tok \in DictToks}
    \cup {<<LBRACE, RBRACE>>,              \* the empty object
          <<QUOTE, PROSE, QUOTE>>,         \* a JSON string
          <<DIGIT>>,                       \* a JSON number
          <<PROSE, WS, PROSE>>,            \* prose without any JSON
          <<LBRACE, "d_valid">>,           \* an object cut short
          <<>>}                            \* nothing

ResponseTexts == {Wrap(w, core) : w \in Wrappers, core \in Cores}

(***************************************************************************)
(* The JSON extractor, _extract_json_from_response: trim, strip a code     *)
(* fence, find the first opening brace, scan to the brace that closes it.  *)
(***************************************************************************)
\* the language tag: the letters that follow the opening fence marker
RECURSIVE DropTag(_)
DropTag(t) == IF t # <<>> /\ Head(t) = PROSE THEN DropTag(Tail(t)) ELSE t

\* a text that begins with a fence marker loses it, its language tag and
\* the fence marker it ends with
StripFence(t) ==
    IF t # <<>> /\ Head(t) = FENCE
    THEN LET body == DropTag(Tail(t))
         IN  Trim(IF body # <<>> /\ body[Len(body)] = FENCE
                  THEN SubSeq(body, 1, Len(body) - 1)
                  ELSE body)
    ELSE t

\* the position of the first opening brace, 0 when there is none
FirstBrace(u) ==
    IF \E i \in 1..Len(u) : u[i] = LBRACE
    THEN CHOOSE i \in 1..Len(u) : u[i] = LBRACE /\ \A j \in 1..(i - 1) : u[j] # LBRACE
    ELSE 0

\* the scanner with every brace counted, those of string literals too
RECURSIVE ScanNoStrings(_, _, _)
ScanNoStrings(u, i, depth) ==
    IF i > Len(u) THEN 0
    ELSE IF u[i] = LBRACE THEN ScanNoStrings(u, i + 1, depth + 1)
    ELSE IF u[i] = RBRACE
         THEN IF depth = 1 THEN i ELSE ScanNoStrings(u, i + 1, depth - 1)
    ELSE ScanNoStrings(u, i + 1, depth)

\* the scanner as a state machine over (brace depth, in a string literal,
\* escape pending): the position where the depth is back at zero, 0 when
\* the text ends before
RECURSIVE Scan(_, _, _, _, _)
Scan(u, i, depth, in_string, escape) ==
    IF i > Len(u) THEN 0
    ELSE IF escape THEN Scan(u, i + 1, depth, in_string, FALSE)
    ELSE IF in_string
         THEN IF u[i] = BSLASH THEN Scan(u, i + 1, depth, TRUE, TRUE)
              ELSE IF u[i] = QUOTE THEN Scan(u, i + 1, depth, FALSE, FALSE)
              ELSE Scan(u, i + 1, depth, TRUE, FALSE)
    ELSE IF u[i] = QUOTE THEN Scan(u, i + 1, depth, TRUE, FALSE)
    ELSE IF u[i] = LBRACE THEN Scan(u, i + 1, depth + 1, FALSE, FALSE)
    ELSE IF u[i] = RBRACE
         THEN IF depth = 1 THEN i ELSE Scan(u, i + 1, depth - 1, FALSE, FALSE)
    ELSE Scan(u, i + 1, depth, FALSE, FALSE)

ScanFromNoStrings(u, i) == ScanNoStrings(u, i, 0)

\* the scan from the first opening brace, at position i
ScanFrom(u, i) == Scan(u, i, 0, FALSE, FALSE)

ExtractError == [status |-> "error", value |-> <<>>, error |-> "No JSON object found"]

\* the extractor with a best-effort result: an object that is never closed
\* is returned up to the end of the text
ExtractBestEffort(t) ==
    LET u == StripFence(Trim(t))
        i == FirstBrace(u)
        j == IF i = 0 THEN 0 ELSE ScanFrom(u, i)
    IN  IF i = 0 THEN ExtractError
        ELSE [status |-> "ok", value |-> SubSeq(u, i, IF j = 0 THEN Len(u) ELSE j), error |-> ""]

\* the extractor with the closing brace left out of the result
ExtractExclusiveEnd(t) ==
    LET u == StripFence(Trim(t))
        i == FirstBrace(u)
        j == IF i = 0 THEN 0 ELSE ScanFrom(u, i)
    IN  IF i = 0 \/ j = 0
        THEN ExtractError
        ELSE [status |-> "ok", value |-> SubSeq(u, i, j - 1), error |-> ""]

\* _extract_json_from_response(t): the JSON text, or the error raised
Extract(t) ==
    LET u == StripFence(Trim(t))
        i == FirstBrace(u)
        j == IF i = 0 THEN 0 ELSE ScanFrom(u, i)
    IN  IF i = 0 \/ j = 0
        THEN ExtractError
        ELSE [status |-> "ok", value |-> SubSeq(u, i, j), error |-> ""]

\* the texts of at most n characters
TextsUpTo(n) == UNION {[1..k -> ScanChars] : k \in 0..n}

(***************************************************************************)
(* Exceptions.  An exception is its class, the message prefixes put in     *)
(* front of the original text (outermost first), and the class of the      *)
(* exception the text comes from.                                          *)
(***************************************************************************)
\* anthropic: APITimeoutError is an APIConnectionError, which is an APIError
IsInstance(cls, of) ==
    CASE of = "Exception"       -> TRUE
      [] of = "APIError"        -> cls \in {"APIError", "APITimeoutError"}
      [] of = "APITimeoutError" -> cls = "APITimeoutError"
      [] OTHER                  -> cls = of

Raw(cls) == [cls |-> cls, labels |-> <<>>, origin |-> cls]
NoExc    == [cls |-> "", labels |-> <<>>, origin |-> ""]

\* ClaudeServiceError(f"<label>: {str(e)}")
ClaudeServiceError(label, e) ==
    [cls |-> "ClaudeServiceError", labels |-> <<label>> \o e.labels, origin |-> e.origin]

\* the failure kind a message prefix stands for
KindOfLabel(label) ==
    CASE label = "Claude API timeout"                -> "Timeout"
      [] label = "Claude API error"                  -> "UpstreamError"
      [] label = "Unexpected error"                  -> "Unexpected"
      [] label = "Invalid JSON response from Claude" -> "MalformedJson"
      [] label = "Response validation failed"        -> "SchemaValidationFailed"
      [] label = "No JSON object found"              -> "NoJsonFound"
      [] OTHER                                       -> "Unexpected"

\* the kind an error shows to its catcher: that of its outermost prefix
KindOf(e) == IF e.labels = <<>> THEN "none" ELSE KindOfLabel(Head(e.labels))

RECURSIVE Pow2(_)
Pow2(n) == IF n = 0 THEN 1 ELSE 2 * Pow2(n - 1)

(***************************************************************************)
(* State.                                                                  *)
(***************************************************************************)
Reqs == {"r1", "r2"}

VARIABLES
    pc,             \* per request: where its coroutine stands
    entry,          \* per request: the method that was invoked
    max_retries,    \* per request: the max_retries argument
    attempt,        \* per request: the loop variable of _call_claude_with_retry
    calls,          \* per request: what client.messages.create did, call by call
    sleeps,         \* per request: the delays given to asyncio.sleep, in order
    outcome,        \* per request: how the invoked method ended
    response_json,  \* per request: what _call_claude_with_retry returned
    result,         \* per request: the HousingPricingResponse returned
    text,           \* the text given to the extractor
    extracted,      \* what the extractor made of it
    again,          \* what the extractor made of its own result
    doc,            \* the mapping given to _parse_and_validate_response
    validated,      \* what _parse_and_validate_response made of it
    query,          \* per request: the query parameters given to the handler
    invoked,        \* per request: the arguments of each service invocation by the handler
    http            \* per request: the response of the handler

vars == <<pc, entry, max_retries, attempt, calls, sleeps, outcome, response_json, result,
          text, extracted, again, doc, validated, query, invoked, http>>

serviceVars == <<pc, entry, max_retries, attempt, calls, sleeps, outcome, response_json, result>>
extractVars == <<text, extracted, again>>
validateVars == <<doc, validated>>
handlerVars == <<query, invoked, http>>

NotExtracted == [status |-> "none", value |-> <<>>, error |-> ""]

\* max_retries=2 in get_housing_pricing_estimate
EstimateMaxRetries == 2

\* what client.messages.create raises: a timeout, another API error, anything else
UpstreamExceptions == {"APITimeoutError", "APIError", "RuntimeError"}

Raised(cls)      == [kind |-> "raise",  exc |-> cls, content |-> <<>>]
Returned(blocks) == [kind |-> "return", exc |-> "",  content |-> blocks]

NoOutcome == [status |-> "none", exc |-> NoExc]

NotValidated == [status |-> "none", value |-> NoResponse, exc |-> NoExc]

NoQuery == [neighborhood |-> <<>>, city |-> <<>>, state |-> <<>>]
NoHttp  == [status |-> 0, detail |-> <<>>, body |-> NoResponse]

InitFor(started) ==
    /\ pc = [r \in Reqs |-> IF r \in started THEN "idle" ELSE "off"]
    /\ query = [r \in Reqs |-> NoQuery]
    /\ invoked = [r \in Reqs |-> <<>>]
    /\ http = [r \in Reqs |-> NoHttp]
    /\ entry = [r \in Reqs |-> "none"]
    /\ max_retries = [r \in Reqs |-> 0]
    /\ attempt = [r \in Reqs |-> 0]
    /\ calls = [r \in Reqs |-> <<>>]
    /\ sleeps = [r \in Reqs |-> <<>>]
    /\ outcome = [r \in Reqs |-> NoOutcome]
    /\ response_json = [r \in Reqs |-> NoJson]
    /\ result = [r \in Reqs |-> NoResponse]

\* no invocation and no request exists: the per-request state is empty
NoRequests ==
    /\ pc = <<>>
    /\ query = <<>>
    /\ invoked = <<>>
    /\ http = <<>>
    /\ entry = <<>>
    /\ max_retries = <<>>
    /\ attempt = <<>>
    /\ calls = <<>>
    /\ sleeps = <<>>
    /\ outcome = <<>>
    /\ response_json = <<>>
    /\ result = <<>>

\* no mapping is given to _parse_and_validate_response
NoDoc == <<>>

Init ==
    /\ InitFor({"r1"})
    /\ doc = NoDoc
    /\ text = <<>>
    /\ extracted = NotExtracted
    /\ again = NotExtracted
    /\ validated = NotValidated

(***************************************************************************)
(* ClaudeService.                                                          *)
(***************************************************************************)
\* _parse_and_validate_response: the model object or the exception raised.
\* HousingPricingResponse(**x) of an x that is no mapping is a TypeError.
ParseAndValidate(parsed) ==
    IF parsed.t # "dict"
    THEN [ok |-> FALSE, value |-> NoResponse, exc |-> Raw("TypeError")]
    ELSE LET v == HousingPricingResponse(parsed.d) IN
         IF v.ok
         THEN [ok |-> TRUE, value |-> v.value, exc |-> NoExc]
         ELSE [ok |-> FALSE, value |-> NoResponse,
               exc |-> ClaudeServiceError("Response validation failed", Raw("ValidationError"))]

\* EstimateCatch with the APIError clause put first
EstimateCatchApiErrorFirst(e) ==
    IF IsInstance(e.cls, "APIError") THEN ClaudeServiceError("Claude API error", e)
    ELSE IF IsInstance(e.cls, "APITimeoutError") THEN ClaudeServiceError("Claude API timeout", e)
    ELSE ClaudeServiceError("Unexpected error", e)

\* EstimateCatch without the last, catch-all clause
EstimateCatchNoCatchAll(e) ==
    IF IsInstance(e.cls, "APITimeoutError") THEN ClaudeServiceError("Claude API timeout", e)
    ELSE IF IsInstance(e.cls, "APIError") THEN ClaudeServiceError("Claude API error", e)
    ELSE e

\* the except clauses of get_housing_pricing_estimate, in their order
EstimateCatch(e) ==
    IF IsInstance(e.cls, "APITimeoutError") THEN ClaudeServiceError("Claude API timeout", e)
    ELSE IF IsInstance(e.cls, "APIError") THEN ClaudeServiceError("Claude API error", e)
    ELSE ClaudeServiceError("Unexpected error", e)

\* not neighborhood.strip() with the strip left out
IsBlankNoStrip(p) == p = <<>>

\* not p.strip()
IsBlank(p) == Trim(p) = <<>>

\* HTTPException(status_code=400, ...), raised before the try block
BadRequest ==
    [status |-> 400,
     detail |-> <<"neighborhood, city, and state must be non-empty strings">>,
     body |-> NoResponse]

\* HandlerCatch with the two except clauses in the other order
HandlerCatchAllFirst(o, v) ==
    IF o.status = "returned"
    THEN [status |-> 200, detail |-> <<>>, body |-> v]
    ELSE [status |-> 500, detail |-> <<"Internal server error">>, body |-> NoResponse]

\* the try block of get_housing_pricing: the response for the outcome o of
\* the service, v being the object it returned
HandlerCatch(o, v) ==
    IF o.status = "returned"
    THEN [status |-> 200, detail |-> <<>>, body |-> v]
    ELSE IF IsInstance(o.exc.cls, "ClaudeServiceError")
    THEN [status |-> 502,
          detail |-> <<"Upstream service error">> \o o.exc.labels,
          body |-> NoResponse]
    ELSE [status |-> 500, detail |-> <<"Internal server error">>, body |-> NoResponse]

\* the service ends with outcome o: a handler that awaits it responds
Responds(r, o, v) ==
    http' = [http EXCEPT ![r] = IF invoked[r] # <<>> THEN HandlerCatch(o, v) ELSE @]

\* an exception leaves _call_claude_with_retry: a direct caller sees it as
\* it is, get_housing_pricing_estimate catches and wraps it
Escapes(r, e) ==
    LET o == [status |-> "raised",
              exc |-> IF entry[r] = "estimate" THEN EstimateCatch(e) ELSE e]
    IN  /\ outcome' = [outcome EXCEPT ![r] = o]
        /\ Responds(r, o, NoResponse)
        /\ pc' = [pc EXCEPT ![r] = "done"]

\* Retryable with every exception caught by the retry loop
RetryableAny(cls) == IsInstance(cls, "Exception")

\* is the exception one the retry loop catches
Retryable(cls) == IsInstance(cls, "APITimeoutError") \/ IsInstance(cls, "APIError")

\* IsLastAttempt one iteration late
IsLastAttemptLate(r) == attempt[r] = max_retries[r] + 1

\* IsLastAttempt reading one counter kept on the service object
IsLastAttemptShared(r) == attempt["r1"] = max_retries[r]

\* IsLastAttempt one iteration early
IsLastAttemptEarly(r) == attempt[r] + 1 >= max_retries[r]

\* is the attempt the last one of the loop
IsLastAttempt(r) == attempt[r] = max_retries[r]

\* Backoff with the exponent one too large
BackoffDoubled(n) == Pow2(n + 1)

\* the delay before the next attempt
Backoff(n) == Pow2(n)

\* get_housing_pricing_estimate is invoked
Estimate(r) ==
    /\ pc[r] = "idle"
    /\ entry' = [entry EXCEPT ![r] = "estimate"]
    /\ max_retries' = [max_retries EXCEPT ![r] = EstimateMaxRetries]
    /\ attempt' = [attempt EXCEPT ![r] = 0]
    /\ pc' = [pc EXCEPT ![r] = "call"]
    /\ UNCHANGED <<calls, sleeps, outcome, response_json, result>>
    /\ UNCHANGED <<extractVars, validateVars, handlerVars>>

\* _call_claude_with_retry is invoked by itself, as the tests do
CallDirect(r, m) ==
    /\ pc[r] = "idle"
    /\ entry' = [entry EXCEPT ![r] = "call"]
    /\ max_retries' = [max_retries EXCEPT ![r] = m]
    /\ attempt' = [attempt EXCEPT ![r] = 0]
    /\ pc' = [pc EXCEPT ![r] = "call"]
    /\ UNCHANGED <<calls, sleeps, outcome, response_json, result>>
    /\ UNCHANGED <<extractVars, validateVars, handlerVars>>

\* await asyncio.to_thread(self.client.messages.create, ...)
IssueCall(r) ==
    /\ pc[r] = "call"
    /\ pc' = [pc EXCEPT ![r] = "awaiting"]
    /\ UNCHANGED <<entry, max_retries, attempt, calls, sleeps, outcome, response_json, result>>
    /\ UNCHANGED <<extractVars, validateVars, handlerVars>>

\* the call raises APITimeoutError or APIError
UpstreamFailsRetryable(r, cls) ==
    /\ pc[r] = "awaiting"
    /\ Retryable(cls)
    /\ calls' = [calls EXCEPT ![r] = Append(@, Raised(cls))]
    /\ IF IsLastAttempt(r)
       THEN /\ Escapes(r, Raw(cls))
            /\ UNCHANGED sleeps
       ELSE /\ sleeps' = [sleeps EXCEPT ![r] = Append(@, Backoff(attempt[r]))]
            /\ pc' = [pc EXCEPT ![r] = "sleeping"]
            /\ UNCHANGED <<outcome, http>>
    /\ UNCHANGED <<entry, max_retries, attempt, response_json, result>>
    /\ UNCHANGED <<extractVars, validateVars, query, invoked>>

\* asyncio.sleep is over: the next iteration of the loop
WakeUp(r) ==
    /\ pc[r] = "sleeping"
    /\ attempt' = [attempt EXCEPT ![r] = @ + 1]
    /\ pc' = [pc EXCEPT ![r] = "call"]
    /\ UNCHANGED <<entry, max_retries, calls, sleeps, outcome, response_json, result>>
    /\ UNCHANGED <<extractVars, validateVars, handlerVars>>

\* the call raises anything else
UpstreamFailsOther(r, cls) ==
    /\ pc[r] = "awaiting"
    /\ ~Retryable(cls)
    /\ calls' = [calls EXCEPT ![r] = Append(@, Raised(cls))]
    /\ Escapes(r, Raw(cls))
    /\ UNCHANGED <<entry, max_retries, attempt, sleeps, response_json, result>>
    /\ UNCHANGED <<extractVars, validateVars, query, invoked>>

\* the call returns a response without any content block: content[0] fails
UpstreamReturnsNoContent(r) ==
    /\ pc[r] = "awaiting"
    /\ calls' = [calls EXCEPT ![r] = Append(@, Returned(<<>>))]
    /\ Escapes(r, Raw("IndexError"))
    /\ UNCHANGED <<entry, max_retries, attempt, sleeps, response_json, result>>
    /\ UNCHANGED <<extractVars, validateVars, query, invoked>>

\* UpstreamReturnsBadJson with JSONDecodeError among the retried exceptions
UpstreamReturnsBadJsonRetried(r, content) ==
    /\ pc[r] = "awaiting"
    /\ ~JsonLoads(content).ok
    /\ calls' = [calls EXCEPT ![r] = Append(@, Returned(<<content>>))]
    /\ IF IsLastAttempt(r)
       THEN /\ Escapes(r, ClaudeServiceError("Invalid JSON response from Claude",
                                             Raw("JSONDecodeError")))
            /\ UNCHANGED sleeps
       ELSE /\ sleeps' = [sleeps EXCEPT ![r] = Append(@, Backoff(attempt[r]))]
            /\ pc' = [pc EXCEPT ![r] = "sleeping"]
            /\ UNCHANGED <<outcome, http>>
    /\ UNCHANGED <<entry, max_retries, attempt, response_json, result>>
    /\ UNCHANGED <<extractVars, validateVars, query, invoked>>

\* the call returns text that json.loads rejects
UpstreamReturnsBadJson(r, content) ==
    /\ pc[r] = "awaiting"
    /\ ~JsonLoads(content).ok
    /\ calls' = [calls EXCEPT ![r] = Append(@, Returned(<<content>>))]
    /\ Escapes(r, ClaudeServiceError("Invalid JSON response from Claude", Raw("JSONDecodeError")))
    /\ UNCHANGED <<entry, max_retries, attempt, sleeps, response_json, result>>
    /\ UNCHANGED <<extractVars, validateVars, query, invoked>>

\* the call returns text that json.loads accepts; get_housing_pricing_estimate
\* goes on to _parse_and_validate_response
UpstreamReturnsJson(r, content) ==
    /\ pc[r] = "awaiting"
    /\ JsonLoads(content).ok
    /\ calls' = [calls EXCEPT ![r] = Append(@, Returned(<<content>>))]
    /\ response_json' = [response_json EXCEPT ![r] = JsonLoads(content)]
    /\ IF entry[r] = "call"
       THEN /\ outcome' = [outcome EXCEPT ![r] = [status |-> "returned", exc |-> NoExc]]
            /\ pc' = [pc EXCEPT ![r] = "done"]
            /\ UNCHANGED <<result, http>>
       ELSE LET v == ParseAndValidate(JsonLoads(content)) IN
            IF v.ok
            THEN /\ result' = [result EXCEPT ![r] = v.value]
                 /\ outcome' = [outcome EXCEPT ![r] = [status |-> "returned", exc |-> NoExc]]
                 /\ Responds(r, [status |-> "returned", exc |-> NoExc], v.value)
                 /\ pc' = [pc EXCEPT ![r] = "done"]
            ELSE /\ Escapes(r, v.exc)
                 /\ UNCHANGED result
    /\ UNCHANGED <<entry, max_retries, attempt, sleeps>>
    /\ UNCHANGED <<extractVars, validateVars, query, invoked>>

Next ==
    \/ \E r \in Reqs : Estimate(r)
    \/ \E r \in Reqs, m \in 0..MaxRetriesArg : CallDirect(r, m)
    \/ \E r \in Reqs : IssueCall(r)
    \/ \E r \in Reqs, cls \in UpstreamExceptions : UpstreamFailsRetryable(r, cls)
    \/ \E r \in Reqs : WakeUp(r)
    \/ \E r \in Reqs, cls \in UpstreamExceptions : UpstreamFailsOther(r, cls)
    \/ \E r \in Reqs : UpstreamReturnsNoContent(r)
    \/ \E r \in Reqs, t \in ResponseTexts : UpstreamReturnsBadJson(r, t)
    \/ \E r \in Reqs, t \in ResponseTexts : UpstreamReturnsJson(r, t)

Spec == Init /\ [][Next]_vars

\* the upstream call of r completes: it raises or it returns
UpstreamCompletes(r) ==
    \/ \E cls \in UpstreamExceptions : UpstreamFailsRetryable(r, cls)
    \/ \E cls \in UpstreamExceptions : UpstreamFailsOther(r, cls)
    \/ UpstreamReturnsNoContent(r)
    \/ \E t \in ResponseTexts : UpstreamReturnsBadJson(r, t)
    \/ \E t \in ResponseTexts : UpstreamReturnsJson(r, t)

\* The event loop resumes a coroutine that can go on: the call is issued,
\* asyncio.sleep returns, and every call completes within the client timeout.
Fairness ==
    \A r \in Reqs :
        /\ WF_vars(IssueCall(r))
        /\ WF_vars(UpstreamCompletes(r))
        /\ WF_vars(WakeUp(r))

SpecLive == Init /\ [][Next]_vars /\ Fairness

(***************************************************************************)
(* The request handler (app/api/housing.py).                               *)
(***************************************************************************)
\* values of a query parameter: empty, blank, a name, a name in blanks, a
\* name of two words
Params == {<<>>, <<WS>>, <<WS, WS>>, <<PROSE>>, <<WS, PROSE, WS>>, <<PROSE, WS, PROSE>>}

Queries == [neighborhood : Params, city : Params, state : Params]

\* the keyword arguments of the service invocation
Stripped(q) ==
    [neighborhood |-> Trim(q.neighborhood), city |-> Trim(q.city), state |-> Trim(q.state)]

\* what a patched get_housing_pricing_estimate is made to raise
StubExceptions ==
    {[cls |-> "ClaudeServiceError", labels |-> <<"Claude API failed">>, origin |-> "ClaudeServiceError"],
     [cls |-> "ClaudeServiceError", labels |-> <<"Invalid JSON response">>, origin |-> "ClaudeServiceError"],
     [cls |-> "ClaudeServiceError", labels |-> <<>>, origin |-> "ClaudeServiceError"],
     [cls |-> "Exception", labels |-> <<"Unexpected error">>, origin |-> "Exception"],
     [cls |-> "RuntimeError", labels |-> <<"boom">>, origin |-> "RuntimeError"],
     [cls |-> "ValueError", labels |-> <<>>, origin |-> "ValueError"]}

\* GET /housing/pricing with the query q, up to the await of the service;
\* patched: get_housing_pricing_estimate is replaced by a mock, as the tests do
GetHousingPricing(r, q, patched) ==
    /\ pc[r] = "idle"
    /\ query' = [query EXCEPT ![r] = q]
    /\ IF IsBlank(q.neighborhood) \/ IsBlank(q.city) \/ IsBlank(q.state)
       THEN /\ http' = [http EXCEPT ![r] = BadRequest]
            /\ pc' = [pc EXCEPT ![r] = "done"]
            /\ UNCHANGED <<entry, max_retries, attempt, invoked>>
       ELSE /\ invoked' = [invoked EXCEPT ![r] = Append(@, Stripped(q))]
            /\ entry' = [entry EXCEPT ![r] = IF patched THEN "patched" ELSE "estimate"]
            /\ max_retries' = [max_retries EXCEPT ![r] = IF patched THEN @ ELSE EstimateMaxRetries]
            /\ attempt' = [attempt EXCEPT ![r] = 0]
            /\ pc' = [pc EXCEPT ![r] = IF patched THEN "patched" ELSE "call"]
            /\ UNCHANGED http
    /\ UNCHANGED <<calls, sleeps, outcome, response_json, result>>
    /\ UNCHANGED <<extractVars, validateVars>>

\* the patched service returns the sample response
PatchedReturns(r) ==
    /\ pc[r] = "patched"
    /\ result' = [result EXCEPT ![r] = HousingPricingResponse(SampleDict).value]
    /\ outcome' = [outcome EXCEPT ![r] = [status |-> "returned", exc |-> NoExc]]
    /\ Responds(r, [status |-> "returned", exc |-> NoExc], HousingPricingResponse(SampleDict).value)
    /\ pc' = [pc EXCEPT ![r] = "done"]
    /\ UNCHANGED <<entry, max_retries, attempt, calls, sleeps, response_json>>
    /\ UNCHANGED <<extractVars, validateVars, query, invoked>>

\* the patched service raises e
PatchedRaises(r, e) ==
    /\ pc[r] = "patched"
    /\ outcome' = [outcome EXCEPT ![r] = [status |-> "raised", exc |-> e]]
    /\ Responds(r, [status |-> "raised", exc |-> e], NoResponse)
    /\ pc' = [pc EXCEPT ![r] = "done"]
    /\ UNCHANGED <<entry, max_retries, attempt, calls, sleeps, response_json, result>>
    /\ UNCHANGED <<extractVars, validateVars, query, invoked>>

NextHandler ==
    \/ \E r \in Reqs, q \in Queries, patched \in BOOLEAN : GetHousingPricing(r, q, patched)
    \/ \E r \in Reqs : PatchedReturns(r)
    \/ \E r \in Reqs, e \in StubExceptions : PatchedRaises(r, e)
    \/ \E r \in Reqs : IssueCall(r)
    \/ \E r \in Reqs, cls \in UpstreamExceptions : UpstreamFailsRetryable(r, cls)
    \/ \E r \in Reqs : WakeUp(r)
    \/ \E r \in Reqs, cls \in UpstreamExceptions : UpstreamFailsOther(r, cls)
    \/ \E r \in Reqs : UpstreamReturnsNoContent(r)
    \/ \E r \in Reqs, t \in ResponseTexts : UpstreamReturnsBadJson(r, t)
    \/ \E r \in Reqs, t \in ResponseTexts : UpstreamReturnsJson(r, t)

SpecHandler == Init /\ [][NextHandler]_vars

(***************************************************************************)
(* Two invocations of get_housing_pricing_estimate on the one              *)
(* claude_service object, their steps interleaved by the event loop.       *)
(***************************************************************************)
\* the texts the upstream returns here: a valid object, an object the schema
\* refuses, and text that is no JSON
ConcurrentTexts == {ObjectText("d_valid"), ObjectText("d_empty_sources"), <<PROSE>>}

InitConcurrent ==
    /\ InitFor(Reqs)
    /\ doc = NoDoc
    /\ text = <<>>
    /\ extracted = NotExtracted
    /\ again = NotExtracted
    /\ validated = NotValidated

NextConcurrent ==
    \/ \E r \in Reqs : Estimate(r)
    \/ \E r \in Reqs : IssueCall(r)
    \/ \E r \in Reqs, cls \in UpstreamExceptions : UpstreamFailsRetryable(r, cls)
    \/ \E r \in Reqs : WakeUp(r)
    \/ \E r \in Reqs, cls \in UpstreamExceptions : UpstreamFailsOther(r, cls)
    \/ \E r \in Reqs : UpstreamReturnsNoContent(r)
    \/ \E r \in Reqs, t \in ConcurrentTexts : UpstreamReturnsBadJson(r, t)
    \/ \E r \in Reqs, t \in ConcurrentTexts : UpstreamReturnsJson(r, t)

SpecConcurrent == InitConcurrent /\ [][NextConcurrent]_vars

(***************************************************************************)
(* get_housing_pricing_estimate run on its own, from start to end, against *)
(* the list cs of upstream results: the sleeps it makes, its outcome, and  *)
(* whether it has ended when cs is used up.                                *)
(***************************************************************************)
AloneRaises(sl, e) ==
    [sleeps |-> sl, outcome |-> [status |-> "raised", exc |-> EstimateCatch(e)],
     result |-> NoResponse, done |-> TRUE]

RECURSIVE AloneLoop(_, _, _)
AloneLoop(cs, a, sl) ==
    IF a + 1 > Len(cs)
    THEN [sleeps |-> sl, outcome |-> NoOutcome, result |-> NoResponse, done |-> FALSE]
    ELSE LET c == cs[a + 1] IN
         IF c.kind = "raise"
         THEN IF IsInstance(c.exc, "APITimeoutError") \/ IsInstance(c.exc, "APIError")
              THEN IF a = EstimateMaxRetries
                   THEN AloneRaises(sl, Raw(c.exc))
                   ELSE AloneLoop(cs, a + 1, Append(sl, Pow2(a)))
              ELSE AloneRaises(sl, Raw(c.exc))
         ELSE IF c.content = <<>>
         THEN AloneRaises(sl, Raw("IndexError"))
         ELSE IF ~JsonLoads(c.content[1]).ok
         THEN AloneRaises(sl, ClaudeServiceError("Invalid JSON response from Claude",
                                                 Raw("JSONDecodeError")))
         ELSE LET v == ParseAndValidate(JsonLoads(c.content[1])) IN
              IF v.ok
              THEN [sleeps |-> sl, outcome |-> [status |-> "returned", exc |-> NoExc],
                    result |-> v.value, done |-> TRUE]
              ELSE AloneRaises(sl, v.exc)

RunAlone(cs) == AloneLoop(cs, 0, <<>>)

(***************************************************************************)
(* The extractor applied to one text.                                      *)
(***************************************************************************)
InitExtract ==
    /\ NoRequests
    /\ doc = NoDoc
    /\ text \in TextsUpTo(MaxLen)
    /\ extracted = NotExtracted
    /\ again = NotExtracted
    /\ validated = NotValidated

\* _extract_json_from_response(text) returns
ExtractReturns ==
    /\ extracted.status = "none"
    /\ Extract(text).status = "ok"
    /\ extracted' = Extract(text)
    /\ UNCHANGED <<serviceVars, validateVars, handlerVars>>
    /\ UNCHANGED <<text, again>>

\* _extract_json_from_response(text) raises
ExtractRaises ==
    /\ extracted.status = "none"
    /\ Extract(text).status = "error"
    /\ extracted' = Extract(text)
    /\ UNCHANGED <<serviceVars, validateVars, handlerVars>>
    /\ UNCHANGED <<text, again>>

\* _extract_json_from_response is given the result it returned
ExtractAgain ==
    /\ extracted.status = "ok"
    /\ again.status = "none"
    /\ again' = Extract(extracted.value)
    /\ UNCHANGED <<serviceVars, validateVars, handlerVars>>
    /\ UNCHANGED <<text, extracted>>

NextExtract == ExtractReturns \/ ExtractRaises \/ ExtractAgain

SpecExtract == InitExtract /\ [][NextExtract]_vars

(***************************************************************************)
(* _parse_and_validate_response called on its own, on every mapping of     *)
(* Docs.                                                                   *)
(***************************************************************************)
InitValidate ==
    /\ NoRequests
    /\ doc \in Docs
    /\ text = <<>>
    /\ extracted = NotExtracted
    /\ again = NotExtracted
    /\ validated = NotValidated

AsParsed(d) == [ok |-> TRUE, t |-> "dict", d |-> d]

\* _parse_and_validate_response(doc) returns the model object
ValidateReturns ==
    /\ validated.status = "none"
    /\ ParseAndValidate(AsParsed(doc)).ok
    /\ validated' = [status |-> "ok",
                     value |-> ParseAndValidate(AsParsed(doc)).value,
                     exc |-> NoExc]
    /\ UNCHANGED <<serviceVars, extractVars, handlerVars, doc>>

\* _parse_and_validate_response(doc) raises
ValidateRaises ==
    /\ validated.status = "none"
    /\ ~ParseAndValidate(AsParsed(doc)).ok
    /\ validated' = [status |-> "error",
                     value |-> NoResponse,
                     exc |-> ParseAndValidate(AsParsed(doc)).exc]
    /\ UNCHANGED <<serviceVars, extractVars, handlerVars, doc>>

NextValidate == ValidateReturns \/ ValidateRaises

SpecValidate == InitValidate /\ [][NextValidate]_vars

(***************************************************************************)
(* Properties of the retrying caller and of the error wrapping.            *)
(***************************************************************************)
Last(q) == q[Len(q)]

\* every call so far failed with a failure of kind Timeout or UpstreamError
AllRetryable(r) ==
    \A i \in 1..Len(calls[r]) :
        calls[r][i].kind = "raise" /\ calls[r][i].exc \in {"APITimeoutError", "APIError"}

\* the delays 1, 2, 4, ... of k sleeps
ExpectedDelays(k) == [i \in 1..k |-> 2 ^ (i - 1)]

\* the text the i-th call of r returned is a schema-valid object, bare or in blanks
ReturnedValid(r, i) ==
    /\ calls[r][i].kind = "return"
    /\ \E tok \in DictToks, w \in {"bare", "blank"} :
          /\ FieldErrors(DictOf(tok)) = {}
          /\ calls[r][i].content = <<Wrap(w, ObjectText(tok))>>

\* C1: while every upstream call fails with Timeout or UpstreamError, a caller
\* with max_retries = m sleeps 2^0, 2^1, ... between consecutive attempts (one
\* sleep after each failed attempt but the last, none before the first), it
\* raises only after attempt m+1, and it ends after exactly m+1 attempts and m
\* sleeps; get_housing_pricing_estimate ends after 3 attempts and delays 1, 2.
C1_RetryExhaustion ==
    \A r \in Reqs :
        (pc[r] \in {"call", "awaiting", "sleeping", "done"} /\ AllRetryable(r)) =>
            /\ sleeps[r] = ExpectedDelays(Len(sleeps[r]))
            /\ pc[r] # "done" => Len(sleeps[r]) = Len(calls[r])
            /\ pc[r] # "done" => Len(calls[r]) <= max_retries[r]
            /\ pc[r] # "done" => outcome[r].status = "none"
            /\ pc[r] = "done" =>
                  /\ outcome[r].status = "raised"
                  /\ Len(calls[r]) = max_retries[r] + 1
                  /\ Len(sleeps[r]) = max_retries[r]
                  /\ entry[r] = "estimate" => (Len(calls[r]) = 3 /\ sleeps[r] = <<1, 2>>)

C1_Witness ==
    \E r \in Reqs :
        /\ entry[r] = "estimate"
        /\ pc[r] = "done"
        /\ Len(calls[r]) = 3
        /\ \A i \in 1..3 : calls[r][i] = Raised("APIError")
        /\ sleeps[r] = <<1, 2>>
        /\ outcome[r].status = "raised"

\* C2: when the first upstream call of get_housing_pricing_estimate fails with
\* Timeout and the second returns a valid response, the method has returned
\* that response after exactly 2 attempts and exactly one sleep, of 1 time
\* unit; nothing is called or slept after the successful call.
C2_SuccessOnSecondAttempt ==
    \A r \in Reqs :
        ( /\ entry[r] = "estimate"
          /\ Len(calls[r]) >= 2
          /\ calls[r][1] = Raised("APITimeoutError")
          /\ ReturnedValid(r, 2) ) =>
            /\ pc[r] = "done"
            /\ outcome[r].status = "returned"
            /\ Len(calls[r]) = 2
            /\ sleeps[r] = <<1>>
            /\ result[r] = HousingPricingResponse(JsonLoads(calls[r][2].content[1]).d).value

C2_Witness ==
    \E r \in Reqs :
        /\ entry[r] = "estimate"
        /\ calls[r] = <<Raised("APITimeoutError"), Returned(<<ObjectText("d_valid")>>)>>
        /\ sleeps[r] = <<1>>
        /\ outcome[r].status = "returned"
        /\ result[r].confidence_level = "medium"

\* C3: an upstream failure that is neither Timeout nor UpstreamError is never
\* retried: it is the last call of its request, whatever the attempt, no sleep
\* follows it, the request has ended by raising, and the error raised by
\* get_housing_pricing_estimate is of kind Unexpected.
C3_UnexpectedNotRetried ==
    \A r \in Reqs :
        \A i \in 1..Len(calls[r]) :
            (calls[r][i].kind = "raise" /\ calls[r][i].exc \notin {"APITimeoutError", "APIError"}) =>
                /\ i = Len(calls[r])
                /\ Len(sleeps[r]) = i - 1
                /\ pc[r] = "done"
                /\ outcome[r].status = "raised"
                /\ entry[r] = "estimate" => KindOf(outcome[r].exc) = "Unexpected"

C3_Witness ==
    \E r \in Reqs :
        /\ entry[r] = "estimate"
        /\ calls[r] = <<Raised("APIError"), Raised("RuntimeError")>>
        /\ sleeps[r] = <<1>>
        /\ pc[r] = "done"
        /\ KindOf(outcome[r].exc) = "Unexpected"

\* C4: when get_housing_pricing_estimate has used up its retries on failures
\* of kind Timeout or UpstreamError, the error it raises has the kind of the
\* last failed attempt, whatever the earlier attempts failed with, and it
\* carries the text of that last failure under that one label.
C4_LastFailureSurfaces ==
    \A r \in Reqs :
        ( /\ entry[r] = "estimate"
          /\ pc[r] = "done"
          /\ AllRetryable(r)
          /\ Len(calls[r]) = max_retries[r] + 1 ) =>
            /\ outcome[r].status = "raised"
            /\ outcome[r].exc.cls = "ClaudeServiceError"
            /\ Len(outcome[r].exc.labels) = 1
            /\ outcome[r].exc.origin = Last(calls[r]).exc
            /\ KindOf(outcome[r].exc) =
                  (IF Last(calls[r]).exc = "APITimeoutError" THEN "Timeout" ELSE "UpstreamError")

C4_Witness ==
    \E r \in Reqs :
        /\ entry[r] = "estimate"
        /\ pc[r] = "done"
        /\ calls[r] = <<Raised("APIError"), Raised("APIError"), Raised("APITimeoutError")>>
        /\ KindOf(outcome[r].exc) = "Timeout"

\* C5: every ended get_housing_pricing_estimate either raised a
\* ClaudeServiceError or returned the HousingPricingResponse that validation
\* built from a decoded object without field errors; no other exception
\* class escapes and nothing unvalidated is returned.
C5_UniformError ==
    \A r \in Reqs :
        (entry[r] = "estimate" /\ pc[r] = "done") =>
            \/ /\ outcome[r].status = "raised"
               /\ outcome[r].exc.cls = "ClaudeServiceError"
               /\ result[r] = NoResponse
            \/ /\ outcome[r].status = "returned"
               /\ Last(calls[r]).kind = "return"
               /\ response_json[r].t = "dict"
               /\ FieldErrors(response_json[r].d) = {}
               /\ result[r] = HousingPricingResponse(response_json[r].d).value

C5_Witness ==
    \E r \in Reqs :
        /\ entry[r] = "estimate"
        /\ pc[r] = "done"
        /\ outcome[r].status = "raised"
        /\ outcome[r].exc.cls = "ClaudeServiceError"
        /\ outcome[r].exc.origin = "TypeError"
        /\ response_json[r].t = "int"

\* the failure kind of the stage an exception of class cls comes from
StageKind(cls) ==
    CASE cls = "APITimeoutError" -> "Timeout"
      [] cls = "APIError"        -> "UpstreamError"
      [] cls = "JSONDecodeError" -> "MalformedJson"
      [] cls = "ValidationError" -> "SchemaValidationFailed"
      [] OTHER                   -> "Unexpected"

\* C6: the error raised by get_housing_pricing_estimate carries exactly one
\* label, that of the stage that failed: SchemaValidationFailed for a schema
\* failure, MalformedJson for a parse failure, never Unexpected in their place.
C6_KindRetained ==
    \A r \in Reqs :
        (entry[r] = "estimate" /\ outcome[r].status = "raised") =>
            /\ Len(outcome[r].exc.labels) = 1
            /\ KindOf(outcome[r].exc) = StageKind(outcome[r].exc.origin)

\* the text has no opening brace
HasNoBrace(t) == \A i \in 1..Len(t) : t[i] # LBRACE

\* C7: when the upstream call returns text without any opening brace,
\* get_housing_pricing_estimate raises a ClaudeServiceError that says
\* "No JSON object found" (kind NoJsonFound).
C7_NoJsonFound ==
    \A r \in Reqs :
        ( /\ entry[r] = "estimate"
          /\ pc[r] = "done"
          /\ Last(calls[r]).kind = "return"
          /\ Last(calls[r]).content # <<>>
          /\ HasNoBrace(Last(calls[r]).content[1]) ) =>
            /\ outcome[r].status = "raised"
            /\ outcome[r].exc.cls = "ClaudeServiceError"
            /\ \E i \in 1..Len(outcome[r].exc.labels) :
                  KindOfLabel(outcome[r].exc.labels[i]) = "NoJsonFound"

\* C8: when the first upstream call returns a schema-valid object in a code
\* fence (with or without language tag) or in prose, the request succeeds on
\* that attempt with the very object the bare text yields.
C8_WrappingIsTransparent ==
    \A r \in Reqs :
        \A tok \in DictToks, w \in {"fence_json", "fence_plain", "prose"} :
            ( /\ pc[r] = "done"
              /\ FieldErrors(DictOf(tok)) = {}
              /\ calls[r][1] = Returned(<<Wrap(w, ObjectText(tok))>>) ) =>
                /\ outcome[r].status = "returned"
                /\ response_json[r] = JsonLoads(ObjectText(tok))
                /\ entry[r] = "estimate" => result[r] = HousingPricingResponse(DictOf(tok)).value

(***************************************************************************)
(* Properties of the extractor.  Brace depth is defined here position by   *)
(* position, from the quotes that delimit string literals, not by a scan.  *)
(***************************************************************************)
\* the number of backslashes that stand right before position k
RECURSIVE BackslashRun(_, _)
BackslashRun(u, k) ==
    IF k > 1 /\ u[k - 1] = BSLASH THEN 1 + BackslashRun(u, k - 1) ELSE 0

\* DelimCount(u, i, k): the quotes at i..k-1 that open or close a string
\* literal, reading from i.  A quote delimits unless it stands in a string
\* literal after an odd number of backslashes.
RECURSIVE DelimCount(_, _, _)
DelimCount(u, i, k) ==
    IF k <= i THEN 0
    ELSE LET before == DelimCount(u, i, k - 1)
             delim  == u[k - 1] = QUOTE /\ (before % 2 = 0 \/ BackslashRun(u, k - 1) % 2 = 0)
         IN  before + (IF delim THEN 1 ELSE 0)

\* position k lies in a string literal that was opened at or after i
InString(u, i, k) == DelimCount(u, i, k) % 2 = 1

\* the brace depth after position k, counted from position i
Depth(u, i, k) ==
    Cardinality({j \in i..k : u[j] = LBRACE /\ ~InString(u, i, j)})
    - Cardinality({j \in i..k : u[j] = RBRACE /\ ~InString(u, i, j)})

\* k is where the brace opened at i is closed: the depth is zero for the first time
ClosesAt(u, i, k) ==
    /\ k \in i..Len(u)
    /\ Depth(u, i, k) = 0
    /\ \A j \in i..(k - 1) : Depth(u, i, j) # 0

IsFirstBrace(u, i) ==
    /\ i \in 1..Len(u)
    /\ u[i] = LBRACE
    /\ \A j \in 1..(i - 1) : u[j] # LBRACE

\* C9: when the extractor succeeds, its result is the part of the trimmed,
\* fence-stripped text from the first opening brace to the closing brace at
\* which the brace depth is zero for the first time, braces in string
\* literals (escaped quotes respected) not counted.
C9_ExtractIsBalancedObject ==
    extracted.status = "ok" =>
        LET u == StripFence(Trim(text)) IN
        \E i \in 1..Len(u) : \E k \in i..Len(u) :
            /\ IsFirstBrace(u, i)
            /\ ClosesAt(u, i, k)
            /\ extracted.value = SubSeq(u, i, k)

\* an object after prose, with a closing brace in a string literal
C9_Witness ==
    /\ extracted.status = "ok"
    /\ text = <<PROSE, LBRACE, QUOTE, RBRACE, QUOTE, RBRACE>>
    /\ extracted.value = <<LBRACE, QUOTE, RBRACE, QUOTE, RBRACE>>

\* the first opening brace of the text is never closed
NeverClosed(t) ==
    \E i \in 1..Len(t) :
        /\ IsFirstBrace(t, i)
        /\ \A k \in i..Len(t) : Depth(t, i, k) # 0

\* C10: the extractor fails with "No JSON object found", and has no result,
\* on every text that is empty, is whitespace only, has no opening brace, or
\* whose first opening brace is not closed before the text ends.
C10_ExtractFails ==
    ( /\ extracted.status # "none"
      /\ \/ text = <<>>
         \/ \A i \in 1..Len(text) : text[i] = WS
         \/ \A i \in 1..Len(text) : text[i] # LBRACE
         \/ NeverClosed(text) ) =>
        /\ extracted.status = "error"
        /\ extracted.error = "No JSON object found"
        /\ extracted.value = <<>>

\* an object whose only closing brace stands in a string literal
C10_Witness ==
    /\ extracted.status = "error"
    /\ text = <<PROSE, LBRACE, QUOTE, RBRACE, QUOTE>>
    /\ NeverClosed(text)

\* C11: the extractor is idempotent on its successes: given a result it
\* returned, it succeeds again and returns that same text.
C11_ExtractIdempotent ==
    again.status # "none" =>
        /\ extracted.status = "ok"
        /\ again.status = "ok"
        /\ again.value = extracted.value

\* the second application to the object taken out of a fence
C11_Witness ==
    /\ text = <<FENCE, PROSE, LBRACE, LBRACE, RBRACE, RBRACE>>
    /\ extracted.value = <<LBRACE, LBRACE, RBRACE, RBRACE>>
    /\ again.status = "ok"
    /\ again.value = extracted.value

\* a required field of d is absent
RequiredAbsent(d) ==
    \/ \E k \in {"neighborhood", "city", "state", "price_range",
                 "confidence_level", "data_sources", "summary"} : d[k].t = "absent"
    \/ /\ d["price_range"].t = "obj"
       /\ \E k \in {"min", "max", "median"} : d["price_range"].o[k].t = "absent"

\* C12: validation fails with SchemaValidationFailed whenever data_sources is
\* an empty sequence, confidence_level is none of low, medium and high, or a
\* required field is absent; so every response it returns has a non-empty
\* data_sources and a confidence_level of the three, while an absent caveats
\* is accepted like an empty one and becomes the empty sequence.
C12_ValidationRejects ==
    validated.status # "none" =>
        /\ (\/ doc["data_sources"] = JList(<<>>)
            \/ ~(doc["confidence_level"].t = "str"
                 /\ doc["confidence_level"].s \in {"low", "medium", "high"})
            \/ RequiredAbsent(doc))
           => /\ validated.status = "error"
              /\ validated.exc.cls = "ClaudeServiceError"
              /\ KindOf(validated.exc) = "SchemaValidationFailed"
        /\ validated.status = "ok"
           => /\ Len(validated.value.data_sources) >= 1
              /\ validated.value.confidence_level \in {"low", "medium", "high"}
        /\ doc["caveats"].t = "absent"
           => LET e == ParseAndValidate(AsParsed(With(doc, "caveats", JList(<<>>))))
              IN  /\ (validated.status = "ok") = e.ok
                  /\ validated.value = e.value
                  /\ validated.value.caveats = <<>>

\* a mapping without caveats is returned with none, and one whose only flaw is
\* an empty data_sources is refused
C12_Witness ==
    \/ /\ doc = Without(SampleDict, "caveats")
       /\ validated.status = "ok"
       /\ validated.value.caveats = <<>>
       /\ validated.value.data_sources = <<"market trends", "economic indicators">>
    \/ /\ doc = With(SampleDict, "data_sources", JList(<<>>))
       /\ validated.status = "error"
       /\ KindOf(validated.exc) = "SchemaValidationFailed"

\* a price of a document
NegativePrice(d) ==
    /\ d["price_range"].t = "obj"
    /\ \E k \in PriceKeys : d["price_range"].o[k].t = "int" /\ d["price_range"].o[k].n < 0

\* C13: every validated response has non-negative min, max and median, and a
\* response with a negative price is rejected by validation; no ordering of
\* min, median and max is needed to be accepted.
C13_PricesUnsigned ==
    validated.status # "none" =>
        /\ validated.status = "ok"
           => /\ validated.value.price_range.min >= 0
              /\ validated.value.price_range.max >= 0
              /\ validated.value.price_range.median >= 0
        /\ NegativePrice(doc) => validated.status = "error"
        /\ doc = With(SampleDict, "price_range", JObj(Prices(900000, 100000, 550000)))
           => validated.status = "ok"

\* a parameter of the query is empty once its whitespace is trimmed
BlankQuery(q) ==
    \E k \in {"neighborhood", "city", "state"} : \A i \in 1..Len(q[k]) : q[k][i] = WS

\* p without its leading and trailing whitespace, position by position
IsTrimOf(p, u) ==
    /\ u # <<>> => u[1] # WS /\ u[Len(u)] # WS
    /\ \E a \in 0..Len(p), b \in 0..Len(p) :
          /\ Len(p) = a + Len(u) + b
          /\ \A i \in 1..a : p[i] = WS
          /\ \A i \in 1..Len(u) : p[a + i] = u[i]
          /\ \A i \in 1..b : p[a + Len(u) + i] = WS

\* C14: a request with a parameter that is empty after trimming gets 400 and
\* the service is never invoked, no upstream attempt is made; any other
\* request invokes the service exactly once, with the three values trimmed.
C14_BlankInputRejected ==
    \A r \in Reqs :
        query[r] \in Queries /\ pc[r] # "idle" /\ (http[r].status # 0 \/ invoked[r] # <<>>) =>
            IF BlankQuery(query[r])
            THEN /\ http[r].status = 400
                 /\ invoked[r] = <<>>
                 /\ calls[r] = <<>>
                 /\ pc[r] = "done"
            ELSE /\ Len(invoked[r]) = 1
                 /\ \A k \in {"neighborhood", "city", "state"} :
                        IsTrimOf(query[r][k], invoked[r][1][k])
                 /\ http[r].status # 400

\* a blank city is refused without any call, and a padded query has reached
\* the service trimmed
C14_Witness ==
    \/ /\ query["r1"] = [neighborhood |-> <<PROSE>>, city |-> <<WS, WS>>, state |-> <<PROSE>>]
       /\ http["r1"].status = 400
       /\ invoked["r1"] = <<>>
    \/ /\ query["r1"] = [neighborhood |-> <<WS, PROSE, WS>>, city |-> <<PROSE, WS, PROSE>>,
                         state |-> <<PROSE>>]
       /\ invoked["r1"] = <<[neighborhood |-> <<PROSE>>, city |-> <<PROSE, WS, PROSE>>,
                            state |-> <<PROSE>>]>>
       /\ Len(calls["r1"]) = 2
       /\ pc["r1"] = "done"

\* C15: for a valid query the response is a function of the outcome of the
\* service: 200 with the returned object, 502 for every ClaudeServiceError,
\* and for every other exception 500 with the fixed detail "Internal server
\* error", whatever its message; a request refused with 400 ends there, it is
\* never answered with 500 or 502.
C15_OutcomeMapping ==
    \A r \in Reqs :
        /\ pc[r] = "done" /\ invoked[r] # <<>> =>
              /\ outcome[r].status \in {"returned", "raised"}
              /\ outcome[r].status = "returned"
                    => /\ http[r].status = 200
                       /\ http[r].body = result[r]
              /\ outcome[r].status = "raised" /\ outcome[r].exc.cls = "ClaudeServiceError"
                    => /\ http[r].status = 502
                       /\ http[r].detail = <<"Upstream service error">> \o outcome[r].exc.labels
              /\ outcome[r].status = "raised" /\ outcome[r].exc.cls # "ClaudeServiceError"
                    => /\ http[r].status = 500
                       /\ http[r].detail = <<"Internal server error">>
        /\ pc[r] # "done" => http[r].status = 0
        /\ BlankQuery(query[r]) /\ http[r].status # 0
              => /\ http[r].status = 400
                 /\ pc[r] = "done"
                 /\ outcome[r].status = "none"

\* a service patched to raise Exception("Unexpected error") is answered with
\* 500 and the fixed detail
C15_Witness ==
    /\ pc["r1"] = "done"
    /\ invoked["r1"] # <<>>
    /\ outcome["r1"].exc = [cls |-> "Exception", labels |-> <<"Unexpected error">>,
                            origin |-> "Exception"]
    /\ http["r1"].status = 500
    /\ http["r1"].detail = <<"Internal server error">>

\* C16: invocations running concurrently on the one service object share no
\* mutable state: under every interleaving, each request's sleeps, outcome
\* and result are those of the same request run alone against the upstream
\* results it received itself, it makes no more calls than that run, and its
\* attempt counter counts its own retries only.
C16_NoSharedState ==
    \A r \in Reqs :
        entry[r] = "estimate" =>
            LET alone == RunAlone(calls[r]) IN
            /\ sleeps[r] = alone.sleeps
            /\ outcome[r] = alone.outcome
            /\ result[r] = alone.result
            /\ (pc[r] = "done") = alone.done
            /\ attempt[r] = Len(sleeps[r]) - (IF pc[r] = "sleeping" THEN 1 ELSE 0)
            /\ attempt[r] <= EstimateMaxRetries

\* one request has used up its three attempts while the other one, started
\* before it ended, succeeded on its second
C16_Witness ==
    /\ pc["r1"] = "done"
    /\ Len(calls["r1"]) = 3
    /\ outcome["r1"].status = "raised"
    /\ sleeps["r1"] = <<1, 2>>
    /\ pc["r2"] = "done"
    /\ Len(calls["r2"]) = 2
    /\ outcome["r2"].status = "returned"
    /\ sleeps["r2"] = <<1>>

\* C17: provided every upstream call completes, every invocation of
\* get_housing_pricing_estimate ends, by returning a response or by raising
\* ClaudeServiceError, and it never makes more than max_retries + 1 = 3
\* upstream calls nor more than 2 sleeps: the retry loop cannot go on for
\* ever.
C17_Terminates ==
    /\ [](\A r \in Reqs :
            entry[r] = "estimate" =>
                /\ Len(calls[r]) <= EstimateMaxRetries + 1
                /\ Len(sleeps[r]) <= EstimateMaxRetries)
    /\ \A r \in Reqs :
          (entry[r] = "estimate") ~>
              (/\ pc[r] = "done"
               /\ \/ outcome[r].status = "returned"
                  \/ /\ outcome[r].status = "raised"
                     /\ outcome[r].exc.cls = "ClaudeServiceError")

\* an invocation that ended on its third call, after two sleeps, by returning
C17_Witness ==
    \E r \in Reqs :
        /\ entry[r] = "estimate"
        /\ pc[r] = "done"
        /\ Len(calls[r]) = EstimateMaxRetries + 1
        /\ Len(sleeps[r]) = EstimateMaxRetries
        /\ calls[r][1].kind = "raise"
        /\ calls[r][2].kind = "raise"
        /\ outcome[r].status = "returned"

\* C18: once an upstream call of a request has returned text, the request
\* makes no further call: the returning call is its last one, whether the
\* text is then refused as JSON, refused by the schema or accepted; the
\* request has ended at once, without a sleep after it, so the number of
\* calls is the number of retryable failures before it plus one.
C18_NoRetryAfterText ==
    \A r \in Reqs :
        \A i \in 1..Len(calls[r]) :
            calls[r][i].kind = "return" =>
                /\ i = Len(calls[r])
                /\ pc[r] = "done"
                /\ outcome[r].status \in {"returned", "raised"}
                /\ \A j \in 1..(i - 1) :
                      /\ calls[r][j].kind = "raise"
                      /\ calls[r][j].exc \in {"APITimeoutError", "APIError"}
                /\ Len(sleeps[r]) = i - 1
                /\ Len(calls[r]) =
                      Cardinality({j \in 1..Len(calls[r]) :
                                      /\ calls[r][j].kind = "raise"
                                      /\ calls[r][j].exc \in {"APITimeoutError", "APIError"}}) + 1

\* after one retried failure the upstream returns an object the schema
\* refuses: the request ends there, with two calls and one sleep
C18_Witness ==
    \E r \in Reqs :
        /\ entry[r] = "estimate"
        /\ calls[r] = <<Raised("APIError"), Returned(<<ObjectText("d_empty_sources")>>)>>
        /\ sleeps[r] = <<1>>
        /\ pc[r] = "done"
        /\ outcome[r].status = "raised"
====
